---- MODULE Spec2Model ----
(***************************************************************************)
(* Model of demohouse/deep_research/deep_research.py: the ResultsSummary    *)
(* evidence store, the planning loop (astream_planning), the intention      *)
(* check, the two summary functions and the two entry points                *)
(* arun_deep_research / astream_deep_research.                              *)
(*                                                                          *)
(* Text is modelled as a sequence of one-character strings.  The characters *)
(* that the code tests for are written in ASCII:                            *)
(*   "W","X"  the two characters of the stop marker  (line 262)             *)
(*   "N"      the negative-intent marker             (line 225)             *)
(*   " "      the split separator                    (line 264)             *)
(*   "n"      a white-space character other than the separator (newline)    *)
(* None and "" are both falsy in Python and are both written <<>>.          *)
(***************************************************************************)
EXTENDS Integers, Sequences, FiniteSets, TLC

(* ----------------------------- bounds ---------------------------------- *)
\* largest configured max_planning_rounds explored (smallest is -1)
MaxRounds == 2
\* units the language model streams in one run (planning and summary)
MaxChunks == 2
\* records the search engine returns in one run
MaxRecords == 2
\* add_result calls explored on a free-standing ResultsSummary
MaxAdds == 3

(* ----------------------------- text ------------------------------------ *)
StopMarker == <<"W", "X">>
NegativeMarker == <<"N">>
Separator == " "
Whitespace == {" ", "n"}

\* Python `sub in s`
Contains(s, sub) ==
    \E i \in 1..(Len(s) - Len(sub) + 1) : SubSeq(s, i, i + Len(sub) - 1) = sub

\* Python s.split(sep) for a one-character sep: always at least one piece
RECURSIVE SplitFrom(_, _, _)
SplitFrom(s, sep, cur) ==
    IF s = <<>> THEN <<cur>>
    ELSE IF Head(s) = sep THEN <<cur>> \o SplitFrom(Tail(s), sep, <<>>)
    ELSE SplitFrom(Tail(s), sep, Append(cur, Head(s)))

split(s, sep) == SplitFrom(s, sep, <<>>)

RECURSIVE lstrip(_)
lstrip(s) == IF s # <<>> /\ Head(s) \in Whitespace THEN lstrip(Tail(s)) ELSE s

RECURSIVE rstrip(_)
rstrip(s) ==
    IF s # <<>> /\ s[Len(s)] \in Whitespace THEN rstrip(SubSeq(s, 1, Len(s) - 1)) ELSE s

\* Python s.strip()
strip(s) == rstrip(lstrip(s))

\* Python sep.join(parts)
RECURSIVE join(_, _)
join(sep, parts) ==
    IF parts = <<>> THEN <<>>
    ELSE IF Len(parts) = 1 THEN parts[1]
    ELSE parts[1] \o sep \o join(sep, Tail(parts))

(* ------------------------- ResultsSummary ------------------------------ *)
\* ref_dict is a Python dict: a sequence of entries with distinct keys, in
\* insertion order.
KeyIndex(d, query) == {i \in 1..Len(d) : d[i].key = query}

\* add_result with the bug of replacing the list of a present query
add_result_overwrite(d, query, results) ==
    IF KeyIndex(d, query) = {}
    THEN Append(d, [key |-> query, value |-> results])
    ELSE LET i == CHOOSE j \in KeyIndex(d, query) : TRUE
         IN [d EXCEPT ![i].value = results]

\* add_result with the bug of putting new keys and new results in front
add_result_prepend(d, query, results) ==
    IF KeyIndex(d, query) = {}
    THEN <<[key |-> query, value |-> results]>> \o d
    ELSE LET i == CHOOSE j \in KeyIndex(d, query) : TRUE
         IN [d EXCEPT ![i].value = results \o @]

\* lines 42-48
add_result(d, query, results) ==
    IF KeyIndex(d, query) = {}
    THEN Append(d, [key |-> query, value |-> results])
    ELSE LET i == CHOOSE j \in KeyIndex(d, query) : TRUE
         IN [d EXCEPT ![i].value = @ \o results]

SummaryContents(value) == [i \in 1..Len(value) |-> value[i].summary_content]

HeaderOf(key) == <<"NL", "HDR<">> \o key \o <<">HDR">>

RECURSIVE to_plaintext(_)
to_plaintext(d) ==
    IF d = <<>> THEN <<>>
    ELSE HeaderOf(d[1].key) \o join(<<"NL">>, SummaryContents(d[1].value))
         \o to_plaintext(Tail(d))

\* the loop with the bug of adding a whole reply under the tag of its first record
AddAll_one_key(d, results) ==
    IF results = <<>> THEN d ELSE add_result(d, results[1].query, results)

\* for search_result in search_results: references.add_result(query, [r])
RECURSIVE AddAll(_, _)
AddAll(d, results) ==
    IF results = <<>> THEN d
    ELSE AddAll(add_result(d, results[1].query, <<results[1]>>), Tail(results))

(* --------------------------- check_query ------------------------------- *)
None == [some |-> FALSE, val |-> <<>>]
Some(v) == [some |-> TRUE, val |-> v]

\* check_query with the bug of leaving out the empty tokens
check_query_drop_empty(output) ==
    IF Contains(output, StopMarker) THEN None
    ELSE Some(SelectSeq([i \in 1..Len(split(output, Separator)) |->
                            strip(split(output, Separator)[i])],
                        LAMBDA q : q # <<>>))

\* check_query with the bug of not trimming the tokens
check_query_no_strip(output) ==
    IF Contains(output, StopMarker) THEN None
    ELSE Some(split(output, Separator))

\* lines 260-264
check_query(output) ==
    IF Contains(output, StopMarker) THEN None
    ELSE Some([i \in 1..Len(split(output, Separator)) |->
                  strip(split(output, Separator)[i])])

\* Python `not new_queries`: None or an empty list
Falsy(q) == ~q.some \/ q.val = <<>>

(* ------------------------- streamed units ------------------------------ *)
\* choices[0].delta of an ArkChatCompletionChunk
Unit(r, c) == [reasoning_content |-> r, content |-> c]

\* what a planning call may stream: reasoning only, content only (a word, the
\* stop marker), both fields, neither field
PlanUnits ==
    { Unit(<<"r">>, <<>>), Unit(<<>>, <<"a">>), Unit(<<>>, <<"W", "X">>),
      Unit(<<"r">>, <<"a">>), Unit(<<>>, <<>>) }

\* what a planning call may stream when the query text matters: reasoning, a
\* space, a newline, two words with a space between them, the stop marker
TextUnits ==
    { Unit(<<"r">>, <<>>), Unit(<<>>, <<" ">>), Unit(<<>>, <<"n">>),
      Unit(<<>>, <<"a", " ", "b">>), Unit(<<>>, <<"W", "X">>) }

\* what a planning call may stream when only the evidence matters: a word
EvidenceUnits == { Unit(<<>>, <<"a">>) }

\* what a summary call may stream: reasoning, content, neither
SummaryUnits == { Unit(<<"s">>, <<>>), Unit(<<>>, <<"c">>), Unit(<<>>, <<>>) }

\* message.content of an intention reply
IntentionReplies == { <<"Y">>, <<"Y", "N">> }

\* SearchResult records the search engine may return: two for a query the
\* planner can ask, one under a tag nobody asked
Records ==
    { [query |-> <<"a">>, summary_content |-> <<"1">>],
      [query |-> <<"a">>, summary_content |-> <<"2">>],
      [query |-> <<"z">>, summary_content |-> <<"1">>] }

\* the one record of a search engine that has a single record
PlainRecords == { r \in Records : r.query = <<"a">> /\ r.summary_content = <<"1">> }

\* sequences over S of length at most n
SeqUpTo(S, n) == UNION { [1..k -> S] : k \in 0..n }

\* utils.cast_content_to_reasoning_content: the content moves to the reasoning
\* field
cast_content_to_reasoning_content(u) == Unit(u.content, <<>>)

(* ------------------------- configuration ------------------------------- *)
\* the fields pydantic declares on each model class
ExtraConfigFields ==
    { "using_intention", "intention_endpoint_id", "max_planning_rounds",
      "max_search_words", "intention_template", "planning_template",
      "summary_template" }
DeepResearchFields ==
    { "search_engine", "planning_endpoint_id", "summary_endpoint_id", "extra_config" }

\* every ExtraConfig the constructor accepts: no field is validated, and
\* intention_template is Optional with default None
AllConfigs ==
    [max_planning_rounds : (-1)..MaxRounds, using_intention : BOOLEAN,
     intention_template : {"template", "None"}]

\* the configurations with an intention template exactly when gating is enabled
Configs == { c \in AllConfigs : c.using_intention <=> c.intention_template # "None" }

\* the configurations the specification calls a ConfigurationError
ConfigErrors ==
    { c \in AllConfigs :
        \/ c.max_planning_rounds <= 0
        \/ c.using_intention /\ c.intention_template = "None" }

\* request.messages as the caller passes it in
CallerMessages == << [role |-> "user", content |-> <<"q">>] >>

(* ------------------------------ state ---------------------------------- *)
VARIABLES
    cfg,                        \* extra_config
    mode,                       \* entry point running: "run", "stream" ("none" before)
    pc,                         \* position of the run
    error,                      \* exception that ended the run ("none" if none)
    planned_rounds,             \* astream_planning local
    planning_result,            \* astream_planning local
    new_queries,                \* astream_planning local
    ref_dict,                   \* references.ref_dict
    messages,                   \* request.messages
    buffered_reasoning_content, \* entry point local
    resp,                       \* what arun_deep_research returned: <<>> or <<r>>
    out,                        \* units astream_deep_research yielded to its caller
    chunk,                      \* last unit taken from a planning stream: <<>> or <<u>>
    yielded,                    \* what astream_planning yielded for it: <<>> or <<u>>
    planning_yields,            \* every unit astream_planning yielded, in order
    calls,                      \* collaborator calls issued, in order
    addLog,                     \* add_result calls made, in order
    nChunks,                    \* units streamed so far
    streamed,                   \* every unit a model call streamed, in order
    returned,                   \* the result lists the search calls returned, in order
    rendered,                   \* last value to_plaintext returned: <<>> or <<text>>
    paired,                     \* a second run with the other entry point follows
    runIdx,                     \* 1, or 2 for the second run of a pair
    oracle,                     \* collaborator replies the second run replays
    evlog,                      \* collaborator replies of this run (pairs only)
    first                       \* outcome of the first run of a pair: <<>> or <<r>>

runVars == << mode, pc, error, planned_rounds, planning_result, new_queries,
              messages, buffered_reasoning_content, resp, out, chunk, yielded,
              planning_yields, calls, nChunks, streamed, returned >>
pairVars == << paired, runIdx, oracle, evlog, first >>
vars == << cfg, runVars, ref_dict, addLog, rendered, pairVars >>

TypeOK ==
    /\ cfg \in AllConfigs
    /\ mode \in {"none", "run", "stream"}
    /\ pc \in {"idle", "loop", "intention", "stream", "search", "planning_done",
               "summary_stream", "done", "failed"}
    /\ error \in {"none", "AttributeError", "CollaboratorFailure", "ValidationError"}
    /\ planned_rounds \in 0..(MaxRounds + 1)
    /\ nChunks \in 0..MaxChunks
    /\ runIdx \in {1, 2}
    /\ paired \in BOOLEAN

InitRun ==
    /\ mode = "none"
    /\ pc = "idle"
    /\ error = "none"
    /\ planned_rounds = 0
    /\ planning_result = <<>>
    /\ new_queries = None
    /\ messages = CallerMessages
    /\ buffered_reasoning_content = <<>>
    /\ resp = <<>>
    /\ out = <<>>
    /\ chunk = <<>>
    /\ yielded = <<>>
    /\ planning_yields = <<>>
    /\ calls = <<>>
    /\ nChunks = 0
    /\ streamed = <<>>
    /\ returned = <<>>

InitCommon ==
    /\ InitRun
    /\ ref_dict = <<>>
    /\ addLog = <<>>
    /\ rendered = <<>>
    /\ runIdx = 1
    /\ oracle = <<>>
    /\ evlog = <<>>
    /\ first = <<>>

Init ==
    /\ cfg \in Configs
    /\ paired = FALSE
    /\ InitCommon

(* ---------------------- collaborator replies --------------------------- *)
NoUnit == Unit(<<>>, <<>>)
Ev(k, text, u, results) == [k |-> k, text |-> text, unit |-> u, results |-> results]
EvIntention(text) == Ev("intention", text, NoUnit, <<>>)
EvUnit(u) == Ev("unit", <<>>, u, <<>>)
EvEnd == Ev("end", <<>>, NoUnit, <<>>)
EvSearch(results) == Ev("search", <<>>, NoUnit, results)
EvResponse(u) == Ev("response", <<>>, u, <<>>)
EvFail == Ev("fail", <<>>, NoUnit, <<>>)

\* a collaborator answers ev: any answer in a first run, the recorded answer
\* while a second run replays the first
Reply(ev) ==
    /\ IF oracle = <<>> THEN TRUE ELSE Head(oracle) = ev
    /\ oracle' = IF oracle = <<>> THEN <<>> ELSE Tail(oracle)
    /\ evlog' = IF paired THEN Append(evlog, ev) ELSE evlog
    /\ UNCHANGED << paired, runIdx, first >>

(* ------------------------- collaborator calls -------------------------- *)
Call(kind, round, template, reference, msgs, queries) ==
    [kind |-> kind, round |-> round, template |-> template,
     reference |-> reference, messages |-> msgs, queries |-> queries,
     reply |-> <<>>, answered |-> FALSE]

\* the call in flight (the last one issued) returns; text is what the caller
\* reads from it: the intention reply, the content buffered from a planning stream
Answer(cs, text) ==
    [cs EXCEPT ![Len(cs)].reply = text, ![Len(cs)].answered = TRUE]

\* _intention_check, up to the await of llm.arun
IntentionCall(round) ==
    Call("intention", round,
         IF cfg.intention_template = "None" THEN "None" ELSE "intention_template",
         to_plaintext(ref_dict), messages, <<>>)

\* the planning call with the bug of rendering the store only once, when empty
PlanningCall_stale(round) ==
    Call("planning", round, "planning_template", to_plaintext(<<>>), messages, <<>>)

\* astream_planning: BaseChatLanguageModel(...) and llm.astream(...)
PlanningCall(round) ==
    Call("planning", round, "planning_template", to_plaintext(ref_dict), messages, <<>>)

\* self.search_engine.asearch(new_queries)
SearchCall(round, queries) ==
    Call("search", round, "none", <<>>, <<>>, queries)

\* arun_summary / astream_summary: the llm call, with the history as it is then
SummaryCall(round, msgs) ==
    Call("summary", round, "summary_template", to_plaintext(ref_dict), msgs, <<>>)

(* --------------------------- entry points ------------------------------ *)
\* lines 94-102 / 126-134: a fresh store and reasoning buffer; the planning
\* generator starts with planned_rounds = 0 (line 164)
Enter(m) ==
    /\ pc = "idle"
    /\ mode # m
    /\ mode' = m
    /\ pc' = "loop"
    /\ ref_dict' = <<>>
    /\ buffered_reasoning_content' = <<>>
    /\ planned_rounds' = 0
    /\ UNCHANGED << cfg, error, planning_result, new_queries, messages, resp, out,
                    chunk, yielded, planning_yields, calls, nChunks, addLog,
                    rendered, streamed, returned, pairVars >>

arun_deep_research == Enter("run")

astream_deep_research == Enter("stream")

(* ------------------------- astream_planning ---------------------------- *)
\* line 213: CustomPromptTemplate(template=self.extra_config.intention_template).
\* The class is not part of the source at hand: given None it either raises in
\* the first round or builds a prompt without a template in every round
TemplateBuilt ==
    IF cfg.intention_template = "None" /\ planned_rounds = 0 THEN BOOLEAN ELSE {TRUE}

\* lines 165-185: the loop test, the round counter, and the first call of the
\* round (the intention call with gating, the planning call without)
astream_planning_round ==
    /\ pc = "loop"
    /\ IF planned_rounds < cfg.max_planning_rounds
       THEN /\ planned_rounds' = planned_rounds + 1
            /\ IF cfg.using_intention
               THEN \E built \in TemplateBuilt :
                       IF built
                       THEN /\ calls' = Append(calls, IntentionCall(planned_rounds + 1))
                            /\ pc' = "intention"
                            /\ UNCHANGED << planning_result, error >>
                       ELSE /\ pc' = "failed"
                            /\ error' = "ValidationError"
                            /\ UNCHANGED << planning_result, calls >>
               ELSE /\ calls' = Append(calls, PlanningCall(planned_rounds + 1))
                    /\ planning_result' = <<>>
                    /\ pc' = "stream"
                    /\ UNCHANGED error
       ELSE /\ pc' = "planning_done"
            /\ UNCHANGED << planned_rounds, calls, planning_result, error >>
    /\ UNCHANGED << cfg, mode, new_queries, ref_dict, messages,
                    buffered_reasoning_content, resp, out, chunk, yielded,
                    planning_yields, nChunks, addLog, rendered,
                    streamed, returned, pairVars >>

\* the return value with the bug of comparing the reply with the marker
intention_result_equals(content) == content # NegativeMarker

\* line 225: the return value of _intention_check
intention_result(content) == ~Contains(content, NegativeMarker)

\* lines 217-225 and 170-187: the intention reply; the negative marker breaks
\* the loop, anything else goes on to the planning call
intention_check ==
    /\ pc = "intention"
    /\ \E text \in IntentionReplies :
        /\ Reply(EvIntention(text))
        /\ IF intention_result(text)
           THEN /\ calls' = Append(Answer(calls, text), PlanningCall(planned_rounds))
                /\ planning_result' = <<>>
                /\ pc' = "stream"
           ELSE /\ pc' = "planning_done"
                /\ calls' = Answer(calls, text)
                /\ UNCHANGED planning_result
    /\ UNCHANGED << cfg, mode, error, planned_rounds, new_queries, ref_dict, messages,
                    buffered_reasoning_content, resp, out, chunk, yielded,
                    planning_yields, nChunks, addLog, rendered, streamed, returned >>

\* the yield with the bug of passing on the units that carry nothing
Classify_forward_empty(u) ==
    IF u.reasoning_content # <<>> THEN << u >>
    ELSE << cast_content_to_reasoning_content(u) >>

\* lines 190-195: what astream_planning yields for a unit, <<>> when it drops it
Classify(u) ==
    IF u.reasoning_content # <<>> THEN << u >>
    ELSE IF u.content # <<>> THEN << cast_content_to_reasoning_content(u) >>
    ELSE <<>>

\* the buffer with the bug of testing the content first
Buffer_content_first(buf, u) ==
    IF u.content # <<>> THEN buf \o u.content ELSE buf

\* lines 190-193: the query-parsing buffer after a unit
Buffer(buf, u) ==
    IF u.reasoning_content # <<>> THEN buf
    ELSE IF u.content # <<>> THEN buf \o u.content
    ELSE buf

\* the accumulation with the bug of assigning instead of adding
Accumulate_assign(buf, ys) ==
    IF ys = <<>> THEN buf ELSE ys[1].reasoning_content

\* lines 105 / 137: the entry point adds the reasoning of each yielded unit
Accumulate(buf, ys) ==
    IF ys = <<>> THEN buf ELSE buf \o ys[1].reasoning_content

\* one entry of streamed: the kind of call and the unit it streamed
Streamed(kind, u) == [kind |-> kind, unit |-> u]

\* lines 189-195 with the consumer's loop body (105, or 137-138): one unit of
\* the planning stream, the planning model streaming units of the set units
planning_unit(units) ==
    /\ pc = "stream"
    /\ nChunks < MaxChunks
    /\ \E u \in units :
        /\ Reply(EvUnit(u))
        /\ chunk' = << u >>
        /\ yielded' = Classify(u)
        /\ planning_yields' = planning_yields \o Classify(u)
        /\ planning_result' = Buffer(planning_result, u)
        /\ buffered_reasoning_content' =
               Accumulate(buffered_reasoning_content, Classify(u))
        /\ out' = IF mode = "stream" THEN out \o Classify(u) ELSE out
        /\ streamed' = Append(streamed, Streamed("planning", u))
    /\ nChunks' = nChunks + 1
    /\ UNCHANGED << cfg, mode, pc, error, planned_rounds, new_queries, ref_dict,
                    messages, resp, calls, addLog, rendered, returned >>

planning_chunk == planning_unit(PlanUnits)

\* the same step for a planning model that streams query text
planning_text == planning_unit(TextUnits)

\* the same step for a planning model that streams one word
planning_word == planning_unit(EvidenceUnits)

\* the end of the stream with the bug of recording the round's plan in the
\* history
planning_end_appends ==
    /\ pc = "stream"
    /\ Reply(EvEnd)
    /\ new_queries' = check_query(planning_result)
    /\ messages' = Append(messages, [role |-> "assistant", content |-> planning_result])
    /\ IF Falsy(new_queries')
       THEN /\ pc' = "planning_done"
            /\ calls' = Answer(calls, planning_result)
       ELSE /\ calls' = Append(Answer(calls, planning_result),
                               SearchCall(planned_rounds, new_queries'.val))
            /\ pc' = "search"
    /\ UNCHANGED << cfg, mode, error, planned_rounds, planning_result, ref_dict,
                    buffered_reasoning_content, resp, out, chunk, yielded,
                    planning_yields, nChunks, addLog, rendered, streamed, returned >>

\* lines 197-205: the stream is exhausted; parse the buffer, stop or search
planning_end ==
    /\ pc = "stream"
    /\ Reply(EvEnd)
    /\ new_queries' = check_query(planning_result)
    /\ IF Falsy(new_queries')
       THEN /\ pc' = "planning_done"
            /\ calls' = Answer(calls, planning_result)
       ELSE /\ calls' = Append(Answer(calls, planning_result),
                               SearchCall(planned_rounds, new_queries'.val))
            /\ pc' = "search"
    /\ UNCHANGED << cfg, mode, error, planned_rounds, planning_result, ref_dict,
                    messages, buffered_reasoning_content, resp, out, chunk, yielded,
                    planning_yields, nChunks, addLog, rendered, streamed, returned >>

\* the add_result calls of lines 207-208 for one search reply
AddCalls(results) ==
    [i \in 1..Len(results) |-> [query |-> results[i].query, results |-> << results[i] >>]]

\* lines 205-208: the search reply, every record added under its own tag; the
\* search engine returns records of the set records
search_results(records) ==
    /\ pc = "search"
    /\ \E results \in SeqUpTo(records, MaxRecords - Len(addLog)) :
        /\ Reply(EvSearch(results))
        /\ ref_dict' = AddAll(ref_dict, results)
        /\ addLog' = addLog \o AddCalls(results)
        /\ returned' = Append(returned, [call |-> Len(calls), results |-> results])
    /\ calls' = Answer(calls, <<>>)
    /\ pc' = "loop"
    /\ UNCHANGED << cfg, mode, error, planned_rounds, planning_result, new_queries,
                    messages, buffered_reasoning_content, resp, out, chunk, yielded,
                    planning_yields, nChunks, rendered, streamed >>

\* the step for a search engine that returns any of Records
search_reply == search_results(Records)

\* the same step for a search engine that has one record to return
search_plain == search_results(PlainRecords)

\* the failure with the bug of catching it in the planning phase and falling
\* back to the summary
collaborator_failure_swallowed ==
    /\ pc \in {"intention", "stream", "search", "summary_stream"}
    /\ Reply(EvFail)
    /\ pc' = IF pc = "summary_stream" THEN "failed" ELSE "planning_done"
    /\ error' = "CollaboratorFailure"
    /\ UNCHANGED << cfg, mode, planned_rounds, planning_result, new_queries, ref_dict,
                    messages, buffered_reasoning_content, resp, out, chunk, yielded,
                    planning_yields, calls, nChunks, addLog, rendered,
                    streamed, returned >>

\* an awaited collaborator call raises: nothing catches it, the run ends
collaborator_failure ==
    /\ pc \in {"intention", "stream", "search", "summary_stream"}
    /\ Reply(EvFail)
    /\ pc' = "failed"
    /\ error' = "CollaboratorFailure"
    /\ UNCHANGED << cfg, mode, planned_rounds, planning_result, new_queries, ref_dict,
                    messages, buffered_reasoning_content, resp, out, chunk, yielded,
                    planning_yields, calls, nChunks, addLog, rendered,
                    streamed, returned >>

(* ----------------------------- summary --------------------------------- *)
AssistantMessage(content) == [role |-> "assistant", content |-> content]

\* what llm.arun may return for the summary
SummaryResponses == { Unit(<<"s">>, <<"c">>), Unit(<<>>, <<"c">>) }

\* lines 109-122 with arun_summary (227-238): the assistant message is appended,
\* then arun_summary reads self.summary_template, which DeepResearch does not
\* declare; with the attribute the call would be made and the reasoning buffer
\* put in front of the response's reasoning
arun_summary ==
    /\ pc = "planning_done"
    /\ mode = "run"
    /\ messages' = Append(messages, AssistantMessage(buffered_reasoning_content))
    /\ IF "summary_template" \in DeepResearchFields
       THEN \E r \in SummaryResponses :
               /\ Reply(EvResponse(r))
               /\ calls' = Answer(Append(calls, SummaryCall(planned_rounds, messages')),
                                  <<>>)
               /\ resp' = << Unit(buffered_reasoning_content \o r.reasoning_content,
                                  r.content) >>
               /\ pc' = "done"
               /\ UNCHANGED error
       ELSE /\ pc' = "failed"
            /\ error' = "AttributeError"
            /\ UNCHANGED << calls, resp, pairVars >>
    /\ UNCHANGED << cfg, mode, planned_rounds, planning_result, new_queries, ref_dict,
                    buffered_reasoning_content, out, chunk, yielded, planning_yields,
                    nChunks, addLog, rendered, streamed, returned >>

\* lines 142-152 with astream_summary (242-255): the assistant message is
\* appended and the summary call issued
astream_summary ==
    /\ pc = "planning_done"
    /\ mode = "stream"
    /\ messages' = Append(messages, AssistantMessage(buffered_reasoning_content))
    /\ calls' = Append(calls, SummaryCall(planned_rounds, messages'))
    /\ pc' = "summary_stream"
    /\ UNCHANGED << cfg, mode, error, planned_rounds, planning_result, new_queries,
                    ref_dict, buffered_reasoning_content, resp, out, chunk, yielded,
                    planning_yields, nChunks, addLog, rendered,
                    streamed, returned, pairVars >>

\* the summary unit with the bug of putting it through the planning classifier
summary_chunk_reclassified ==
    /\ pc = "summary_stream"
    /\ nChunks < MaxChunks
    /\ \E u \in SummaryUnits :
        /\ Reply(EvUnit(u))
        /\ out' = out \o Classify(u)
        /\ streamed' = Append(streamed, Streamed("summary", u))
    /\ nChunks' = nChunks + 1
    /\ UNCHANGED << cfg, mode, pc, error, planned_rounds, planning_result, new_queries,
                    ref_dict, messages, buffered_reasoning_content, resp, chunk,
                    yielded, planning_yields, calls, addLog, rendered, returned >>

\* lines 257-258 and 154-155: a unit of the summary stream is passed on as it is
summary_chunk ==
    /\ pc = "summary_stream"
    /\ nChunks < MaxChunks
    /\ \E u \in SummaryUnits :
        /\ Reply(EvUnit(u))
        /\ out' = Append(out, u)
        /\ streamed' = Append(streamed, Streamed("summary", u))
    /\ nChunks' = nChunks + 1
    /\ UNCHANGED << cfg, mode, pc, error, planned_rounds, planning_result, new_queries,
                    ref_dict, messages, buffered_reasoning_content, resp, chunk,
                    yielded, planning_yields, calls, addLog, rendered, returned >>

\* the summary stream is exhausted: astream_deep_research returns
summary_end ==
    /\ pc = "summary_stream"
    /\ Reply(EvEnd)
    /\ calls' = Answer(calls, <<>>)
    /\ pc' = "done"
    /\ UNCHANGED << cfg, mode, error, planned_rounds, planning_result, new_queries,
                    ref_dict, messages, buffered_reasoning_content, resp, out, chunk,
                    yielded, planning_yields, nChunks, addLog, rendered,
                    streamed, returned >>

Next ==
    \/ arun_deep_research
    \/ astream_deep_research
    \/ astream_planning_round
    \/ intention_check
    \/ planning_chunk
    \/ planning_end
    \/ search_plain
    \/ collaborator_failure
    \/ arun_summary
    \/ astream_summary
    \/ summary_chunk
    \/ summary_end

Spec == Init /\ [][Next]_vars

\* every awaited call returns or raises, and every stream ends: a run that can
\* take a step takes one
FairSpec == Spec /\ WF_vars(Next)

\* one run whose planning model streams query text
NextText ==
    \/ arun_deep_research
    \/ astream_deep_research
    \/ astream_planning_round
    \/ intention_check
    \/ planning_text
    \/ planning_end
    \/ search_plain
    \/ collaborator_failure
    \/ arun_summary
    \/ astream_summary
    \/ summary_chunk
    \/ summary_end

SpecText == Init /\ [][NextText]_vars

\* one run whose search engine returns any of Records, the planning model
\* streaming one word
NextEvidence ==
    \/ arun_deep_research
    \/ astream_deep_research
    \/ astream_planning_round
    \/ intention_check
    \/ planning_word
    \/ planning_end
    \/ search_reply
    \/ collaborator_failure
    \/ arun_summary
    \/ astream_summary
    \/ summary_chunk
    \/ summary_end

SpecEvidence == Init /\ [][NextEvidence]_vars

\* one run under a configuration the specification calls an error
InitConfig ==
    /\ cfg \in ConfigErrors
    /\ paired = FALSE
    /\ InitCommon

SpecConfig == InitConfig /\ [][Next]_vars

(* ------------- the two entry points, one after the other --------------- *)
\* what is compared between the two runs of a pair
Outcome == [pc |-> pc, error |-> error, calls |-> calls, ref_dict |-> ref_dict,
            messages |-> messages]

\* the first run of a pair is over: the other entry point is run on a fresh
\* request, against collaborators that answer as they answered the first run
restart ==
    /\ paired
    /\ runIdx = 1
    /\ pc \in {"done", "failed"}
    /\ first' = << Outcome >>
    /\ runIdx' = 2
    /\ oracle' = evlog
    /\ evlog' = <<>>
    /\ pc' = "idle"
    /\ error' = "none"
    /\ planned_rounds' = 0
    /\ planning_result' = <<>>
    /\ new_queries' = None
    /\ messages' = CallerMessages
    /\ buffered_reasoning_content' = <<>>
    /\ resp' = <<>>
    /\ out' = <<>>
    /\ chunk' = <<>>
    /\ yielded' = <<>>
    /\ planning_yields' = <<>>
    /\ calls' = <<>>
    /\ nChunks' = 0
    /\ streamed' = <<>>
    /\ returned' = <<>>
    /\ ref_dict' = <<>>
    /\ addLog' = <<>>
    /\ UNCHANGED << cfg, mode, rendered, paired >>

InitPair ==
    /\ cfg \in Configs
    /\ paired = TRUE
    /\ InitCommon

NextPair == Next \/ restart

SpecPair == InitPair /\ [][NextPair]_vars

(* ------------------- a free-standing ResultsSummary --------------------- *)
StoreQueries == { <<"a">>, <<"z">> }
StoreRecords == { r \in Records : r.query = <<"a">> }
\* longest results list passed to one add_result call
MaxResults == 2

\* add_result(query, results) on the store
store_add_result ==
    /\ Len(addLog) < MaxAdds
    /\ \E query \in StoreQueries, results \in SeqUpTo(StoreRecords, MaxResults) :
        /\ ref_dict' = add_result(ref_dict, query, results)
        /\ addLog' = Append(addLog, [query |-> query, results |-> results])
    /\ rendered' = <<>>
    /\ UNCHANGED << cfg, runVars, pairVars >>

\* to_plaintext() on the store: it only reads ref_dict
store_to_plaintext ==
    /\ rendered' = << to_plaintext(ref_dict) >>
    /\ UNCHANGED << cfg, runVars, pairVars, ref_dict, addLog >>

InitStore ==
    /\ cfg = [max_planning_rounds |-> 0, using_intention |-> FALSE,
              intention_template |-> "None"]
    /\ paired = FALSE
    /\ InitCommon

NextStore == store_add_result \/ store_to_plaintext

SpecStore == InitStore /\ [][NextStore]_vars

(* ======================================================================= *)
(* Properties                                                               *)
(* ======================================================================= *)
Calls(kind) == { i \in 1..Len(calls) : calls[i].kind = kind }
Count(kind) == Cardinality(Calls(kind))

\* the entry point has returned or raised
RunOver == pc \in {"done", "failed"}
\* the run is over and no collaborator call raised
EndedWithoutCollaboratorFailure == RunOver /\ error # "CollaboratorFailure"

\* concatenation of the reasoning text of a sequence of units
RECURSIVE ReasoningOf(_)
ReasoningOf(units) ==
    IF units = <<>> THEN <<>>
    ELSE units[1].reasoning_content \o ReasoningOf(Tail(units))

(* ------------------------------- C1 ------------------------------------ *)
\* C1: in every run of astream_planning, for every configured round limit, the
\* number of planning calls and the number of search calls issued are each at
\* most max_planning_rounds.
C1_CallsAtMostRoundLimit ==
    pc # "idle" =>
        /\ Count("planning") <= cfg.max_planning_rounds
        /\ Count("search") <= cfg.max_planning_rounds

\* what the loop does guarantee: the bound holds for every limit that is not
\* negative (a negative limit is accepted and gives a run with no round)
CallsAtMostRoundLimitOrZero ==
    LET limit == IF cfg.max_planning_rounds < 0 THEN 0 ELSE cfg.max_planning_rounds
    IN /\ Count("planning") <= limit
       /\ Count("search") <= limit
       /\ Count("intention") <= limit

(* ------------------------------- C2 ------------------------------------ *)
\* planning calls whose buffered content contained the stop marker
StoppedCalls ==
    { i \in Calls("planning") : calls[i].answered /\ Contains(calls[i].reply, StopMarker) }

\* a planning round whose content contains the stop marker issues no search,
\* starts no later round and leaves the store as it was when the round began
StopMarkerEndsLoop ==
    \A i \in StoppedCalls :
        /\ \A j \in (i + 1)..Len(calls) : calls[j].kind = "summary"
        /\ to_plaintext(ref_dict) = calls[i].reference

\* ... and the run goes on to exactly one summary call
StopMarkerThenOneSummary ==
    (StoppedCalls # {} /\ EndedWithoutCollaboratorFailure) => Count("summary") = 1

\* C2: if the content buffered in a planning round contains the stop marker,
\* no search call is issued in that round, no later round is started, the store
\* keeps the value it had at the start of the round, and the run proceeds to
\* exactly one synthesis call (with round limit 1 and no gating: no search call
\* at all and a synthesis over the empty store).
C2_StopMarker ==
    /\ StopMarkerEndsLoop
    /\ StopMarkerThenOneSummary
    /\ (StoppedCalls # {} /\ cfg.max_planning_rounds = 1 /\ ~cfg.using_intention
        /\ EndedWithoutCollaboratorFailure)
       => /\ Count("search") = 0
          /\ \E i \in Calls("summary") : calls[i].reference = <<>>

(* ------------------------------- C3 ------------------------------------ *)
\* intention calls whose reply contained the negative marker
NegativeCalls ==
    { i \in Calls("intention") :
        calls[i].answered /\ Contains(calls[i].reply, NegativeMarker) }

\* C3: with gating, every planning call directly follows an intention check of
\* the same round; a reply with the negative marker in round k ends the loop
\* before any planning or search call of round k and no later round starts (so
\* on round 1 there is no planning and no search call at all); without gating
\* no intention call is ever issued.
C3_IntentionGating ==
    /\ cfg.using_intention =>
         \A i \in Calls("planning") :
            /\ i > 1
            /\ calls[i - 1].kind = "intention"
            /\ calls[i - 1].round = calls[i].round
            /\ calls[i - 1].answered
    /\ \A i \in NegativeCalls :
         /\ \A j \in (i + 1)..Len(calls) : calls[j].kind = "summary"
         /\ \A j \in 1..Len(calls) :
              calls[j].kind \in {"planning", "search"} => calls[j].round < calls[i].round
         /\ calls[i].round = 1 => Count("planning") = 0 /\ Count("search") = 0
    /\ ~cfg.using_intention => Count("intention") = 0

\* a negative reply in round 2, after a round that planned and searched
C3_Witness ==
    /\ cfg.using_intention
    /\ pc = "done"
    /\ \E i \in NegativeCalls : calls[i].round = 2
    /\ Count("planning") = 1
    /\ Count("search") = 1

(* ------------------------------- C4 ------------------------------------ *)
\* calls are issued one at a time: every call but the last has returned, a
\* search call directly follows the planning call of its round and carries the
\* queries parsed from all the content that call streamed, and a summary call
\* is the last call of the run
PhasesSequential ==
    /\ \A i \in 1..(Len(calls) - 1) : calls[i].answered
    /\ \A i \in Calls("search") :
         /\ i > 1
         /\ calls[i - 1].kind = "planning"
         /\ calls[i - 1].round = calls[i].round
         /\ calls[i].queries = check_query(calls[i - 1].reply).val
    /\ \A i \in 1..(Len(calls) - 1) : calls[i].round <= calls[i + 1].round
    /\ \A i \in Calls("summary") : i = Len(calls)
    /\ Count("summary") <= 1

\* C4: the phases of a run are strictly sequential (search after the round's
\* planning stream is consumed, round k+1 after round k's results are stored,
\* synthesis after the loop), and every run in which no collaborator fails
\* issues exactly one synthesis call, whichever way the loop ended.
C4_SequentialOneSummary ==
    /\ PhasesSequential
    /\ EndedWithoutCollaboratorFailure => Count("summary") = 1

(* ------------------------------- C5 ------------------------------------ *)
\* the history the caller passed in, followed by the one assistant message
\* that carries the reasoning text of every unit the planning loop yielded
HistoryForSummary ==
    Append(CallerMessages, AssistantMessage(ReasoningOf(planning_yields)))

\* C5: in both entry points the history the synthesis call sees is the caller's
\* history followed by exactly one assistant message whose content is the
\* concatenation, in emission order, of every reasoning text forwarded from the
\* planning loop; the message is appended once, after the loop has ended and
\* before the synthesis call is issued.
C5_AssistantMessageOnce ==
    /\ messages \in {CallerMessages, HistoryForSummary}
    /\ \A i \in Calls("summary") :
         calls[i].messages = HistoryForSummary /\ messages = HistoryForSummary
    /\ pc \in {"idle", "loop", "intention", "stream", "search", "planning_done"}
         => messages = CallerMessages
    /\ \A i \in 1..Len(calls) :
         calls[i].kind \in {"intention", "planning"} => calls[i].messages = CallerMessages
    /\ (pc \in {"summary_stream", "done"} \/ error = "AttributeError")
         => messages = HistoryForSummary /\ Len(messages) = Len(CallerMessages) + 1

\* a streaming run is over whose planning loop yielded a reasoning unit and a
\* reclassified content unit, in that order, before the summary call
C5_Witness ==
    /\ mode = "stream"
    /\ pc = "done"
    /\ planning_yields = << Unit(<<"r">>, <<>>), Unit(<<"a">>, <<>>) >>
    /\ \E i \in Calls("summary") :
         calls[i].messages = Append(CallerMessages, AssistantMessage(<<"r", "a">>))

(* ------------------------------- C6 ------------------------------------ *)
\* a step that takes one unit from a planning stream
PlanningChunkStep == pc = "stream" /\ nChunks' = nChunks + 1

\* what the entry point passes on to its caller in the step
Forwarded == IF mode = "stream" THEN SubSeq(out', Len(out) + 1, Len(out')) ELSE yielded'

\* C6 (as claimed): a unit carrying a reasoning increment is forwarded
\* unchanged and its text is not buffered; a unit carrying a content increment
\* has its text appended to the query-parsing buffer and is forwarded as a
\* reasoning unit; no unit emitted during planning carries content.
C6_ClassificationAsClaimed ==
    [][PlanningChunkStep =>
        LET u == chunk'[1] IN
        /\ u.reasoning_content # <<>> =>
             /\ yielded' = << u >>
             /\ Forwarded = << u >>
             /\ planning_result' = planning_result
        /\ u.content # <<>> =>
             /\ planning_result' = planning_result \o u.content
             /\ yielded' = << Unit(u.content, <<>>) >>
             /\ Forwarded = yielded'
        /\ \A i \in 1..Len(yielded') : yielded'[i].content = <<>>
      ]_vars

\* C6 (amended): the same for units that carry one field; a unit that carries
\* both is treated as a reasoning unit: forwarded unchanged, content included,
\* and nothing of it is buffered.
C6_Classification ==
    [][PlanningChunkStep =>
        LET u == chunk'[1] IN
        /\ u.reasoning_content # <<>> =>
             /\ yielded' = << u >>
             /\ Forwarded = << u >>
             /\ planning_result' = planning_result
        /\ (u.content # <<>> /\ u.reasoning_content = <<>>) =>
             /\ planning_result' = planning_result \o u.content
             /\ yielded' = << Unit(u.content, <<>>) >>
             /\ Forwarded = yielded'
        /\ \A i \in 1..Len(yielded') :
             yielded'[i].content # <<>> =>
                 u.reasoning_content # <<>> /\ u.content # <<>>
        /\ (u.content = <<>> /\ u.reasoning_content = <<>>) =>
             /\ yielded' = <<>>
             /\ planning_result' = planning_result
      ]_vars

\* a content unit arrived after a reasoning unit in a streaming run: it is in
\* the buffer, the reasoning is not, and the caller got both as reasoning
C6_Witness ==
    /\ mode = "stream"
    /\ pc = "stream"
    /\ chunk = << Unit(<<>>, <<"a">>) >>
    /\ yielded = << Unit(<<"a">>, <<>>) >>
    /\ planning_result = <<"a">>
    /\ out = << Unit(<<"r">>, <<>>), Unit(<<"a">>, <<>>) >>

PairOver == paired /\ runIdx = 2 /\ RunOver /\ first # <<>>

\* C8: run against the same collaborator behaviour and configuration, the two
\* entry points issue the same calls with the same parameters, end with the
\* same store and the same history, and both complete whenever one does.
C8_SameSemantics ==
    PairOver =>
        /\ calls = first[1].calls
        /\ ref_dict = first[1].ref_dict
        /\ messages = first[1].messages
        /\ (pc = "done") = (first[1].pc = "done")

\* what the two entry points do share: the planning loop (calls, store) is the
\* same up to the summary
SamePlanningPhase ==
    PairOver =>
        /\ ref_dict = first[1].ref_dict
        /\ \A i \in 1..Len(calls) :
             calls[i].kind # "summary" =>
                 i <= Len(first[1].calls) /\ calls[i] = first[1].calls[i]
        /\ \A i \in 1..Len(first[1].calls) :
             first[1].calls[i].kind # "summary" =>
                 i <= Len(calls) /\ calls[i] = first[1].calls[i]

(* ------------------------------- C9 ------------------------------------ *)
\* the queries of a sequence of add_result calls, each once, in the order of
\* their first call
RECURSIVE FirstInsertionOrder(_)
FirstInsertionOrder(log) ==
    IF log = <<>> THEN <<>>
    ELSE LET before == FirstInsertionOrder(SubSeq(log, 1, Len(log) - 1))
             q == log[Len(log)].query
         IN IF \E i \in 1..Len(before) : before[i] = q THEN before
            ELSE Append(before, q)

\* the records passed for query q, in the order they were passed
RECURSIVE AppendOrder(_, _)
AppendOrder(log, q) ==
    IF log = <<>> THEN <<>>
    ELSE IF log[1].query = q THEN log[1].results \o AppendOrder(Tail(log), q)
    ELSE AppendOrder(Tail(log), q)

\* the text that lists the queries of the log in first-insertion order and,
\* under each, its results in append order
RECURSIVE ListingFrom(_, _)
ListingFrom(keys, log) ==
    IF keys = <<>> THEN <<>>
    ELSE HeaderOf(keys[1])
         \o join(<<"NL">>, SummaryContents(AppendOrder(log, keys[1])))
         \o ListingFrom(Tail(keys), log)

ExpectedListing(log) == ListingFrom(FirstInsertionOrder(log), log)

\* C9: for every sequence of add_result calls, to_plaintext lists the queries
\* in the order of their first insertion and, under each query, its results in
\* the order they were appended; a second to_plaintext with no add_result in
\* between returns the same text and leaves the store unchanged.
C9_PlaintextOrder ==
    /\ [](rendered # <<>> => rendered[1] = ExpectedListing(addLog))
    /\ [][(rendered # <<>> /\ rendered' # <<>>) =>
             (rendered' = rendered /\ ref_dict' = ref_dict)]_vars

\* three calls, the first query added again after a second one, then rendered
C9_Witness ==
    /\ rendered # <<>>
    /\ Len(addLog) = 3
    /\ addLog[1].query = <<"a">> /\ Len(addLog[1].results) = 1
    /\ addLog[2].query = <<"z">> /\ Len(addLog[2].results) = 2
    /\ addLog[3].query = <<"a">> /\ Len(addLog[3].results) = 1
    /\ addLog[3].results # addLog[1].results
    /\ FirstInsertionOrder(addLog) = << <<"a">>, <<"z">> >>

(* ------------------------------- C10 ----------------------------------- *)
IsPrefix(s, t) == Len(s) <= Len(t) /\ SubSeq(t, 1, Len(s)) = s

\* every key of d is a key of e, and holds in e an extension of what it holds in d
Extends(d, e) ==
    \A i \in 1..Len(d) :
        \E j \in 1..Len(e) : e[j].key = d[i].key /\ IsPrefix(d[i].value, e[j].value)

RECURSIVE TotalRecords(_)
TotalRecords(d) == IF d = <<>> THEN 0 ELSE Len(d[1].value) + TotalRecords(Tail(d))

\* C10: the store only grows: across every step a key once present stays and
\* the sequence under it is extended, earlier records kept in place; results
\* for a present query are appended, never merged or overwritten, so the store
\* always holds as many records as the search calls have returned so far.
C10_StoreOnlyGrows ==
    /\ [][Extends(ref_dict, ref_dict')]_vars
    /\ [](TotalRecords(ref_dict) = Len(addLog))
    /\ [](\A i \in 1..Len(ref_dict) :
            ref_dict[i].value = AppendOrder(addLog, ref_dict[i].key))

\* the same query answered in two rounds: one key, two records, in round order
C10_Witness ==
    /\ planned_rounds = 2
    /\ Count("search") = 2
    /\ pc = "loop"
    /\ ref_dict = << [key |-> <<"a">>,
                      value |-> << [query |-> <<"a">>, summary_content |-> <<"2">>],
                                   [query |-> <<"a">>, summary_content |-> <<"1">>] >>] >>

(* ------------------------------- C11 ----------------------------------- *)
\* the last call issued
LastCall == calls[Len(calls)]
\* an intention, planning or search call raised
PlanningPhaseFailure ==
    /\ error = "CollaboratorFailure"
    /\ LastCall.kind \in {"intention", "planning", "search"}

\* C11: a failing intention, planning or search call is not retried and aborts
\* the run: no call is ever issued after a call that did not return, the
\* assistant message is not appended, a buffered run returns no response, and
\* nothing happens after the failure.
C11_FailureAborts ==
    /\ [](\A i \in 1..Len(calls) : ~calls[i].answered => i = Len(calls))
    /\ [](PlanningPhaseFailure =>
            /\ pc = "failed"
            /\ ~LastCall.answered
            /\ messages = CallerMessages
            /\ resp = <<>>)
    /\ [][pc = "failed" =>
            (pc' = "failed" /\ calls' = calls /\ messages' = messages /\ resp' = resp)]_vars

\* a buffered run whose search call of round 2 raised, with reasoning buffered
\* and evidence stored by then
C11_Witness ==
    /\ PlanningPhaseFailure
    /\ mode = "run"
    /\ LastCall.kind = "search"
    /\ LastCall.round = 2
    /\ buffered_reasoning_content # <<>>
    /\ ref_dict # <<>>

(* ------------------------------- C12 ----------------------------------- *)
\* C12: a configuration with a round limit <= 0, or with intention gating
\* enabled and no intention template, is rejected before the run starts: no
\* intention, planning, search or summary call is ever issued under it.
C12_FailFast ==
    cfg \in ConfigErrors => calls = <<>>

\* the part of it that holds: under a round limit <= 0 no planning-phase call is
\* issued (the loop body is never entered)
NoPlanningUnderNonPositiveLimit ==
    cfg.max_planning_rounds <= 0 => \A i \in 1..Len(calls) : calls[i].kind = "summary"

(* ------------------------------- C13 ----------------------------------- *)
\* the text is empty or made of whitespace only
WhitespaceOnly(text) == \A j \in 1..Len(text) : text[j] \in Whitespace
\* the number of separator characters in the text
Separators(text) == Cardinality({ j \in 1..Len(text) : text[j] = Separator })
\* the planning calls that streamed to their end a buffer of whitespace only
DegenerateCalls ==
    { i \in Calls("planning") : calls[i].answered /\ WhitespaceOnly(calls[i].reply) }
\* the call after call i is the search call of the same round, with these queries
SearchFollows(i, queries) ==
    /\ i < Len(calls)
    /\ calls[i + 1].kind = "search"
    /\ calls[i + 1].round = calls[i].round
    /\ calls[i + 1].queries = queries

\* C13 as stated: when the content buffered in a round is empty or whitespace
\* only (and so without the stop marker), the query list is one empty string,
\* no error is raised, the loop does not stop, and a search call is issued with
\* that list.
C13_OneEmptyQuery ==
    \A i \in DegenerateCalls :
        /\ check_query(calls[i].reply) = Some(<< <<>> >>)
        /\ SearchFollows(i, << <<>> >>)

\* C13: when the content buffered in a round is empty or whitespace only, the
\* query list is made of empty strings, one more than the buffer has space
\* characters (one when it has none); no error is raised, the loop does not
\* stop, and a search call is issued with that list.
C13_EmptyQueries ==
    \A i \in DegenerateCalls :
        LET queries == [j \in 1..(Separators(calls[i].reply) + 1) |-> <<>>]
        IN /\ check_query(calls[i].reply) = Some(queries)
           /\ ~Falsy(check_query(calls[i].reply))
           /\ SearchFollows(i, queries)

\* a round that buffered one space searched for two empty strings, and a round
\* that buffered nothing or a newline searched for one; the next round began
C13_Witness ==
    \E i \in DegenerateCalls, k \in DegenerateCalls :
        /\ Separators(calls[i].reply) = 1
        /\ Separators(calls[k].reply) = 0
        /\ i + 2 <= Len(calls)
        /\ calls[i + 2].round = calls[i].round + 1

(* ------------------------------- C14 ----------------------------------- *)
\* the three ways out of the planning loop
RoundLimitReached ==
    /\ planned_rounds >= cfg.max_planning_rounds
    /\ calls # <<>> => (LastCall.kind = "search" /\ LastCall.answered)
PlanningSignaledStop ==
    /\ calls # <<>>
    /\ LastCall.kind = "intention"
    /\ LastCall.answered
    /\ Contains(LastCall.reply, NegativeMarker)
NoFurtherSearchNeeded ==
    /\ calls # <<>>
    /\ LastCall.kind = "planning"
    /\ LastCall.answered
    /\ Contains(LastCall.reply, StopMarker)

\* the loop is left only through one of its terminals
LoopExitsThroughTerminal ==
    pc = "planning_done" =>
        (RoundLimitReached \/ PlanningSignaledStop \/ NoFurtherSearchNeeded)

\* with calls that return or raise and streams that end, the planning loop is
\* left or the run aborted
LoopTerminates == <>(pc \in {"planning_done", "summary_stream", "done", "failed"})

\* C14: when every collaborator call returns, the planning loop is left only
\* through the round limit, a negative intention or the stop signal, and after
\* any of these the run goes on to the summary and completes: a run that is
\* over without a collaborator failure has completed, no exit is an error.
C14_NormalTermination ==
    /\ LoopExitsThroughTerminal
    /\ EndedWithoutCollaboratorFailure => pc = "done"

\* the same for the streaming entry point alone
StreamingRunCompletes ==
    (mode = "stream" /\ EndedWithoutCollaboratorFailure) => pc = "done"

(* ------------------------------- C15 ----------------------------------- *)
\* the unit carries neither reasoning nor content
EmptyUnit(u) == u.reasoning_content = <<>> /\ u.content = <<>>
\* the form in which a streamed unit reaches the caller: a planning unit with
\* content only arrives as reasoning, any other unit as it is
AsForwarded(e) ==
    IF e.kind = "planning" /\ e.unit.reasoning_content = <<>>
    THEN Unit(e.unit.content, <<>>)
    ELSE e.unit
\* the streamed units that are passed on: all but the empty planning units
PassedOn == SelectSeq(streamed, LAMBDA e : e.kind = "summary" \/ ~EmptyUnit(e.unit))

\* C15: in a streaming run the caller receives the units of the planning
\* rounds in the order they were streamed, without the units that carry
\* neither field, and then every unit of the summary call unchanged and in
\* order; no summary unit comes before a planning unit.
C15_OutputOrder ==
    /\ \A i, j \in 1..Len(streamed) :
          (streamed[i].kind = "summary" /\ streamed[j].kind = "planning") => j < i
    /\ mode = "stream" =>
          out = [i \in 1..Len(PassedOn) |-> AsForwarded(PassedOn[i])]
    /\ mode # "stream" => out = <<>>

\* a streaming run that completed after an empty planning unit and an empty
\* summary unit: the first was dropped, the second passed on
C15_Witness ==
    /\ mode = "stream"
    /\ pc = "done"
    /\ Len(streamed) = 2
    /\ streamed[1].kind = "planning"
    /\ streamed[2].kind = "summary"
    /\ EmptyUnit(streamed[1].unit) /\ EmptyUnit(streamed[2].unit)
    /\ out = << streamed[2].unit >>

(* ------------------------------- C16 ----------------------------------- *)
\* the text without its leading and trailing whitespace
Trimmed(text) ==
    LET inked == { j \in 1..Len(text) : text[j] \notin Whitespace }
    IN IF inked = {} THEN <<>>
       ELSE SubSeq(text, CHOOSE j \in inked : \A k \in inked : j <= k,
                         CHOOSE j \in inked : \A k \in inked : k <= j)
\* the pieces of the text between its separator characters, each trimmed
Tokens(text) ==
    LET seps == { j \in 1..Len(text) : text[j] = Separator }
        \* the position of the n-th separator; 0 and Len + 1 stand for the ends
        Cut(n) == IF n = 0 THEN 0
                  ELSE IF n = Cardinality(seps) + 1 THEN Len(text) + 1
                  ELSE CHOOSE j \in seps : Cardinality({ k \in seps : k < j }) = n - 1
    IN [n \in 1..(Cardinality(seps) + 1) |->
           Trimmed(SubSeq(text, Cut(n - 1) + 1, Cut(n) - 1))]
\* what a unit adds to the query-parsing buffer
ContentBuffered(u) == IF u.reasoning_content = <<>> THEN u.content ELSE <<>>

\* C16: whenever the loop does not stop, the queries passed to the search are
\* the trimmed tokens, in order, of the content buffered in that same round,
\* and there is at least one: the buffer is empty when the round's planning
\* call is issued, grows by the content of each unit without reasoning, and is
\* what the call is answered with; "a b" gives the queries a and b.
C16_QueriesFromRoundBuffer ==
    /\ [](\A i \in Calls("search") :
            /\ i > 1
            /\ calls[i - 1].kind = "planning"
            /\ calls[i - 1].round = calls[i].round
            /\ calls[i].queries = Tokens(calls[i - 1].reply)
            /\ calls[i].queries # <<>>)
    /\ [](Tokens(<<"a", " ", "b">>) = << <<"a">>, <<"b">> >>)
    /\ [][(Len(calls') > Len(calls) /\ calls'[Len(calls')].kind = "planning") =>
            planning_result' = <<>>]_vars
    /\ [][PlanningChunkStep =>
            planning_result' =
                planning_result \o ContentBuffered(streamed'[Len(streamed')].unit)]_vars
    /\ [][(pc = "stream" /\ pc' \in {"search", "planning_done"}) =>
            calls'[Len(calls)].reply = planning_result]_vars

\* round 2 buffered "a b" and searched for a and b, after a round 1 that had
\* buffered something else
C16_Witness ==
    \E i \in Calls("search") :
        /\ calls[i].round = 2
        /\ calls[i].queries = << <<"a">>, <<"b">> >>
        /\ calls[i - 1].reply = <<"a", " ", "b">>
        /\ \E k \in Calls("planning") : calls[k].round = 1 /\ calls[k].reply # <<>>

(* ------------------------------- C17 ----------------------------------- *)
\* the records of the first n search replies, in the order returned
RECURSIVE ReturnedUpTo(_)
ReturnedUpTo(n) ==
    IF n = 0 THEN <<>> ELSE ReturnedUpTo(n - 1) \o returned[n].results
AllReturned == ReturnedUpTo(Len(returned))
\* the keys of a store, the queries of a call, the tags of a reply
Keys(d) == { d[i].key : i \in 1..Len(d) }
QueriesOf(i) == { calls[i].queries[j] : j \in 1..Len(calls[i].queries) }
TagsOf(reply) == { reply.results[j].query : j \in 1..Len(reply.results) }
\* the dispatcher tagged every record of the reply with a query it was given
TaggedAsAsked(reply) == TagsOf(reply) \subseteq QueriesOf(reply.call)
\* the reply has a record for every query
AnsweredAll(reply) == QueriesOf(reply.call) \subseteq TagsOf(reply)
\* the first position of a tag among the records returned
FirstReturned(key) ==
    CHOOSE j \in 1..Len(AllReturned) :
        /\ AllReturned[j].query = key
        /\ \A k \in 1..(j - 1) : AllReturned[k].query # key

RepliesBefore(i) == { n \in 1..Len(returned) : returned[n].call < i }
\* the records of the first n replies as a log of one-record additions
LogUpTo(n) ==
    [j \in 1..Len(ReturnedUpTo(n)) |->
        [query |-> ReturnedUpTo(n)[j].query, results |-> << ReturnedUpTo(n)[j] >>]]
\* the calls that are given rendered evidence
PromptCalls == Calls("intention") \cup Calls("planning") \cup Calls("summary")

\* C18: the intention and planning calls of round k are given the rendering
\* of the store that holds exactly the records returned by the searches of
\* rounds 1..k-1 (nothing in round 1), and the summary call the rendering of
\* the store that holds the records of every search of the run, the last
\* round's included.
C18_EvidenceCurrent ==
    \A i \in PromptCalls :
        /\ calls[i].reference = ExpectedListing(LogUpTo(Cardinality(RepliesBefore(i))))
        /\ \A n \in 1..Len(returned) :
              IF calls[i].kind = "summary"
              THEN n \in RepliesBefore(i)
              ELSE n \in RepliesBefore(i) <=> calls[returned[n].call].round < calls[i].round

\* a streaming run that ended at the round limit 2: the planning call of round
\* 2 was given the record of round 1, the summary call the records of both
C18_Witness ==
    /\ cfg.max_planning_rounds = 2
    /\ Len(returned) = 2
    /\ returned[1].results # <<>> /\ returned[2].results # <<>>
    /\ Calls("summary") # {}
    /\ \E i \in Calls("planning") :
          /\ calls[i].round = 2
          /\ calls[i].reference = ExpectedListing(LogUpTo(1))
    /\ \A i \in Calls("summary") :
          /\ calls[i].reference = ExpectedListing(LogUpTo(2))
          /\ calls[i].reference # ExpectedListing(LogUpTo(1))

(* ------------------------------- C19 ----------------------------------- *)
\* the summary call has been issued
InSynthesis == pc \in {"summary_stream", "done"} /\ Calls("summary") # {}

\* C19: once the summary call is issued, the store, the round counter and the
\* history stay as they are and no further call is issued; every unit of the
\* summary stream reaches the caller as it was streamed, content as content
\* and reasoning as reasoning.
C19_SynthesisReadOnly ==
    /\ [](\A i \in Calls("summary") : i = Len(calls))
    /\ [][InSynthesis =>
            /\ ref_dict' = ref_dict
            /\ addLog' = addLog
            /\ planned_rounds' = planned_rounds
            /\ messages' = messages
            /\ Len(calls') = Len(calls)
            /\ planning_result' = planning_result
            /\ buffered_reasoning_content' = buffered_reasoning_content]_vars
    /\ [][(InSynthesis /\ Len(streamed') > Len(streamed)) =>
            /\ streamed'[Len(streamed')].kind = "summary"
            /\ out' = Append(out, streamed'[Len(streamed')].unit)]_vars

\* a run with evidence stored completed after its summary call streamed a
\* content unit, which the caller received as content
C19_Witness ==
    /\ pc = "done"
    /\ ref_dict # <<>>
    /\ Len(out) > 0
    /\ out[Len(out)] = Unit(<<>>, <<"c">>)
    /\ streamed[Len(streamed)] = Streamed("summary", Unit(<<>>, <<"c">>))

(* ------------------------------- C20 ----------------------------------- *)
\* C20: every intention call and every planning call is given the history as
\* the caller passed it; the history changes in one step only, the append of
\* one assistant message once the planning loop is left, and a completed run
\* leaves it one message longer than the caller passed it.
C20_HistoryUntouchedByPlanning ==
    /\ [](\A i \in Calls("intention") \cup Calls("planning") :
            calls[i].messages = CallerMessages)
    /\ [](pc \in {"loop", "intention", "stream", "search", "planning_done"} =>
            messages = CallerMessages)
    /\ [][messages' # messages =>
            /\ pc = "planning_done"
            /\ messages = CallerMessages
            /\ Len(messages') = Len(messages) + 1
            /\ SubSeq(messages', 1, Len(messages)) = messages
            /\ messages'[Len(messages')].role = "assistant"]_vars
    /\ [](pc = "done" =>
            /\ Len(messages) = Len(CallerMessages) + 1
            /\ SubSeq(messages, 1, Len(CallerMessages)) = CallerMessages)

\* a gated run completed after two rounds: the intention and planning calls of
\* round 2 were given the caller's history, which is now one message longer
C20_Witness ==
    /\ pc = "done"
    /\ \E i \in Calls("intention"), k \in Calls("planning") :
          /\ calls[i].round = 2
          /\ calls[k].round = 2
          /\ calls[i].messages = CallerMessages
          /\ calls[k].messages = CallerMessages
    /\ Len(messages) = Len(CallerMessages) + 1

=============================================================================
